---- MODULE Spec2Model ----
(***************************************************************************)
(* A model of the MLS group state machine (State, state.cpp) over a        *)
(* symbolic ratchet tree.  Byte strings are symbolic terms: a term is a    *)
(* record [t, n, sub] whose tag t names the primitive that produced it,    *)
(* so two terms are equal exactly when they were computed the same way.    *)
(***************************************************************************)
EXTENDS Integers, Sequences, FiniteSets, TLC

(***************************************************************************)
(* Bounds of the model.                                                    *)
(***************************************************************************)
\* identities that may found or be added to the group
NumMembers == 3
\* largest number of leaves a tree may grow to
MaxLeaves == 3
\* factories are not called on a state whose epoch reached this value
MaxEpoch == 3
\* handshakes kept in flight
MaxMsgs == 3
\* distinct outcomes of one call of random_bytes
NumDraws == 1
\* distinct leaf secrets a caller may pass to update
NumUpdSecrets == 2
\* bytes a digest puts out (scaled down from 32, 48 or 64)
HashLen == 1

Members == 1..NumMembers

(***************************************************************************)
(* Program constants.                                                      *)
(***************************************************************************)
zero_epoch == 0
\* the group's cipher suite and a second one that a UserInitKey may offer
GroupSuite == "X25519_SHA256_AES128GCM"
OtherSuite == "P256_SHA256_AES128GCM"

(***************************************************************************)
(* Symbolic byte strings and keys.                                         *)
(***************************************************************************)
Term(tag, num, args) == [t |-> tag, n |-> num, sub |-> args]

\* bytes{} : the empty byte string (a default-constructed bytes member)
EmptyBytes == Term("empty", 0, <<>>)
\* the group_id of the one group
GroupId == Term("group_id", 0, <<>>)
\* an absent optional<bytes> / a node without private part
NoSecret == Term("none", 0, <<>>)
\* the public key of a blank slot
NoKey == Term("nokey", 0, <<>>)

zero_bytes(len) == Term("zero", len, <<>>)
\* random_bytes(32): a fresh value, named by the call that drew it (what for,
\* in which epoch, by whom) and by which of its possible outcomes d it is;
\* draws of different calls never collide
random_bytes(what, arg, epoch, who, d) ==
  Term("rand", d, <<Term(what, arg, <<>>), Term("epoch", epoch, <<>>), Term("by", who, <<>>)>>)
\* a leaf secret chosen by the caller of update
UpdSecret(k) == Term("upd", k, <<>>)
\* the init secret member j keeps for its published UserInitKey
UserInitSecret(j) == Term("uikinit", j, <<>>)

\* DHPrivateKey::derive(suite, secret).public_key()
DHPub(suite, secret) == Term("dhpub", 0, <<Term(suite, 0, <<>>), secret>>)
\* SignaturePrivateKey of member j and its public_key()
SigPriv(j) == Term("sigpriv", j, <<>>)
SigPub(priv) == Term("sigpub", priv.n, <<>>)

\* priv.sign(tbs) and pub.verify(tbs, sig)
Sign(priv, tbs) == [key |-> priv.n, tbs |-> tbs, ok |-> TRUE]
Verify(pub, tbs, sig) == sig.ok /\ sig.key = pub.n /\ sig.tbs = tbs

\* HPKE-style encryption of a path secret to a public key
Encrypt(pub, pt) == [to |-> pub, pt |-> pt]

\* per-level derivations of the ratchet tree
path_step(s) == Term("path", 0, <<s>>)
node_step(s) == Term("node", 0, <<s>>)

hkdf_extract(suite, salt, ikm) == Term("extract", 0, <<Term(suite, 0, <<>>), salt, ikm>>)

(***************************************************************************)
(* Tree arithmetic over a left-balanced binary tree; x is a node index     *)
(* (leaf i is node 2i), n a leaf count.                                    *)
(***************************************************************************)
RECURSIVE Pow2(_)
Pow2(k) == IF k = 0 THEN 1 ELSE 2 * Pow2(k - 1)

RECURSIVE log2(_)
log2(x) == IF x <= 1 THEN 0 ELSE 1 + log2(x \div 2)

RECURSIVE level(_)
level(x) == IF x % 2 = 0 THEN 0 ELSE 1 + level(x \div 2)

node_width(n) == IF n = 0 THEN 0 ELSE 2 * (n - 1) + 1

root(n) == Pow2(log2(node_width(n))) - 1

left(x) == IF level(x) = 0 THEN x ELSE x - Pow2(level(x) - 1)

RECURSIVE clampLeft(_, _)
clampLeft(r, n) == IF r >= node_width(n) THEN clampLeft(left(r), n) ELSE r

right(x, n) == IF level(x) = 0 THEN x ELSE clampLeft(x + Pow2(level(x) - 1), n)

parent_step(x) ==
  LET k == level(x)
  IN IF (x \div Pow2(k + 1)) % 2 = 0 THEN x + Pow2(k) ELSE x - Pow2(k)

RECURSIVE clampParent(_, _)
clampParent(p, n) == IF p >= node_width(n) THEN clampParent(parent_step(p), n) ELSE p

parent(x, n) == IF x = root(n) THEN x ELSE clampParent(parent_step(x), n)

sibling(x, n) ==
  LET p == parent(x, n)
  IN IF x < p THEN right(p, n) ELSE IF x > p THEN left(p) ELSE p

\* the ancestors of x from its parent up to the root
RECURSIVE dirpath(_, _)
dirpath(x, n) ==
  IF x = root(n) THEN <<>> ELSE <<parent(x, n)>> \o dirpath(parent(x, n), n)

\* the sibling of x and of every ancestor of x below the root
RECURSIVE copath(_, _)
copath(x, n) ==
  IF x = root(n) THEN <<>> ELSE <<sibling(x, n)>> \o copath(parent(x, n), n)

\* the two path functions tabulated once for every tree the model can build
\* (a handler may work on a tree one leaf larger than MaxLeaves)
direct_path ==
  [n \in 1..(MaxLeaves + 1) |->
     [i \in 0..(2 * n) |-> IF i < node_width(n) THEN dirpath(i, n) ELSE <<>>]]
co_path ==
  [n \in 1..(MaxLeaves + 1) |->
     [i \in 0..(2 * n) |-> IF i < node_width(n) THEN copath(i, n) ELSE <<>>]]

(***************************************************************************)
(* Ratchet tree: a vector of nodes, node x at position x + 1.  A node is   *)
(* blank, public-only (secret = NoSecret) or private (it keeps the path    *)
(* secret it was derived from).                                            *)
(***************************************************************************)
Min(S) == CHOOSE a \in S : \A b \in S : a <= b

BlankNode == [blank |-> TRUE, pub |-> NoKey, secret |-> NoSecret]
PublicNode(pub) == [blank |-> FALSE, pub |-> pub, secret |-> NoSecret]
\* the key pair of a node is derived from node_step of its path secret
new_node(suite, path_secret) ==
  [blank |-> FALSE, pub |-> DHPub(suite, node_step(path_secret)), secret |-> path_secret]

\* a tree of one leaf
RatchetTree(suite, secret) == [suite |-> suite, nodes |-> <<new_node(suite, secret)>>]

\* number of leaves
tree_size(tree) == (Len(tree.nodes) + 1) \div 2

Node(tree, i) == IF i + 1 <= Len(tree.nodes) THEN tree.nodes[i + 1] ELSE BlankNode

\* the leaf count a path from leaf `from` is computed against: a path from
\* the leaf just past the end is the path of a leaf being added
working_size(tree, from) ==
  IF from = tree_size(tree) THEN tree_size(tree) + 1 ELSE tree_size(tree)

\* the leaf and its direct path, leaf first
PathNodes(from, n) == <<2 * from>> \o direct_path[n][2 * from]

\* path_secret_1 = leaf secret, path_secret_(k+1) = path_step(path_secret_k)
RECURSIVE PathSecret(_, _)
PathSecret(leaf_secret, k) ==
  IF k = 1 THEN leaf_secret ELSE path_step(PathSecret(leaf_secret, k - 1))

RECURSIVE resolution(_, _, _)
resolution(tree, i, n) ==
  IF ~Node(tree, i).blank THEN <<i>>
  ELSE IF level(i) = 0 THEN <<>>
  ELSE resolution(tree, left(i), n) \o resolution(tree, right(i, n), n)

\* a merge that grows the vector by one node too many
WritePath_extra_node(tree, from, nodes) ==
  LET n == working_size(tree, from)
      pos == PathNodes(from, n)
      at(i) == CHOOSE k \in 1..Len(pos) : pos[k] = i
      width == IF n > tree_size(tree) THEN node_width(n) + 1 ELSE Len(tree.nodes)
  IN [tree EXCEPT !.nodes =
        [p \in 1..width |->
           IF \E k \in 1..Len(pos) : pos[k] = p - 1 THEN nodes[at(p - 1)]
           ELSE Node(tree, p - 1)]]

\* write nodes (leaf first) on the path of `from`, growing the vector if needed
WritePath(tree, from, nodes) ==
  LET n == working_size(tree, from)
      pos == PathNodes(from, n)
      at(i) == CHOOSE k \in 1..Len(pos) : pos[k] = i
  IN [tree EXCEPT !.nodes =
        [p \in 1..node_width(n) |->
           IF \E k \in 1..Len(pos) : pos[k] = p - 1 THEN nodes[at(p - 1)]
           ELSE Node(tree, p - 1)]]

\* set_leaf: re-derive the whole direct path of `index` from a leaf secret
set_leaf(tree, index, leaf_secret) ==
  LET n == working_size(tree, index)
      len == Len(PathNodes(index, n))
  IN WritePath(tree, index,
               [k \in 1..len |-> new_node(tree.suite, PathSecret(leaf_secret, k))])

\* encrypt: the new public keys of the path of `from`, and each level's
\* path secret sealed to the resolution of the copath node of that level
tree_encrypt(tree, from, leaf_secret) ==
  LET n == working_size(tree, from)
      cp == co_path[n][2 * from]
      sealed(k) ==
        IF k = 1 THEN <<>>
        ELSE LET res == resolution(tree, cp[k - 1], n)
             IN [j \in 1..Len(res) |->
                   Encrypt(Node(tree, res[j]).pub, PathSecret(leaf_secret, k))]
  IN [k \in 1..(Len(cp) + 1) |->
        [public_key |-> new_node(tree.suite, PathSecret(leaf_secret, k)).pub,
         node_secrets |-> sealed(k)]]

\* index in a resolution of the first node whose private key the tree holds
FirstHolder(tree, res) ==
  LET js == {j \in 1..Len(res) : Node(tree, res[j]).secret # NoSecret}
  IN IF js = {} THEN 0 ELSE Min(js)

\* decrypt at level K, whose copath resolution is res and whose j-th member
\* is a node we hold the private key of: open the j-th ciphertext, re-derive
\* the path from K up and compare with the public keys sent
decrypt_at(tree, path, len, K, res, j) ==
  LET cts == path[K].node_secrets
      derived(k) == new_node(tree.suite, PathSecret(cts[j].pt, k - K + 1))
  IN IF Len(cts) # Len(res)
     THEN [ok |-> FALSE, err |-> "Protocol", nodes |-> <<>>]
     ELSE IF cts[j].to # DHPub(tree.suite, node_step(Node(tree, res[j]).secret))
     THEN [ok |-> FALSE, err |-> "Crypto", nodes |-> <<>>]
     ELSE IF \E k \in K..len : derived(k).pub # path[k].public_key
     THEN [ok |-> FALSE, err |-> "Protocol", nodes |-> <<>>]
     ELSE [ok |-> TRUE, err |-> "",
           nodes |-> [k \in 1..len |->
                        IF k >= K THEN derived(k) ELSE PublicNode(path[k].public_key)]]

\* a decrypt that opens the first ciphertext above the leaf without holding
\* the private key it was sealed to
tree_decrypt_keyless(tree, from, path) ==
  IF from > tree_size(tree) \/ Len(path) < 2 \/ Len(path[2].node_secrets) = 0
  THEN [ok |-> FALSE, err |-> "InvalidParameter", nodes |-> <<>>]
  ELSE [ok |-> TRUE, err |-> "",
        nodes |-> [k \in 1..Len(path) |->
                     IF k >= 2
                     THEN new_node(tree.suite, PathSecret(path[2].node_secrets[1].pt, k - 1))
                     ELSE PublicNode(path[k].public_key)]]

\* decrypt: recover the path secret at the lowest level whose copath
\* resolution holds one of our private keys, re-derive everything above it,
\* take the public keys below it as given
tree_decrypt(tree, from, path) ==
  LET n == working_size(tree, from)
      len == Len(PathNodes(from, n))
      res(k) == resolution(tree, co_path[n][2 * from][k - 1], n)
      lv == {k \in 2..len : FirstHolder(tree, res(k)) # 0}
  IN IF from > tree_size(tree) \/ Len(path) # len
     THEN [ok |-> FALSE, err |-> "InvalidParameter", nodes |-> <<>>]
     ELSE IF lv = {}
     THEN [ok |-> FALSE, err |-> "Crypto", nodes |-> <<>>]
     ELSE LET K == Min(lv)
          IN decrypt_at(tree, path, len, K, res(K), FirstHolder(tree, res(K)))

\* merge: write the decrypted path into the tree
tree_merge(tree, from, nodes) == WritePath(tree, from, nodes)

\* root().secret()
root_secret(tree) == Node(tree, root(tree_size(tree))).secret

\* the wire view of a tree: per node, present flag and public key
PublicTree(tree) ==
  [suite |-> tree.suite,
   nodes |-> [p \in 1..Len(tree.nodes) |->
                [blank |-> tree.nodes[p].blank, pub |-> tree.nodes[p].pub]]]

\* operator== on trees compares the public part only
TreeEq(a, b) == PublicTree(a) = PublicTree(b)

\* occupied(index)
occupied(tree, index) == ~Node(tree, 2 * index).blank

(***************************************************************************)
(* Roster: credentials indexed by leaf index.                              *)
(***************************************************************************)
RawKeyCredential(pub) == [public_key |-> pub]
roster_add(roster, cred) == Append(roster, cred)
roster_get(roster, i) == roster[i + 1]
roster_copy(roster, dst, src) == [roster EXCEPT ![dst + 1] = roster[src + 1]]

(***************************************************************************)
(* UserInitKey: one init key per offered suite, signed by the identity.    *)
(***************************************************************************)
UIKBody(uik) ==
  [cipher_suites |-> uik.cipher_suites, init_keys |-> uik.init_keys,
   identity_key |-> uik.identity_key]

UserInitKey(j, suites) ==
  LET body == [cipher_suites |-> suites,
               init_keys |-> [i \in 1..Len(suites) |-> DHPub(suites[i], UserInitSecret(j))],
               identity_key |-> SigPub(SigPriv(j))]
  IN [cipher_suites |-> body.cipher_suites, init_keys |-> body.init_keys,
      identity_key |-> body.identity_key, signature |-> Sign(SigPriv(j), body)]

uik_verify(uik) == Verify(uik.identity_key, UIKBody(uik), uik.signature)

(***************************************************************************)
(* State: the group state one member holds.                               *)
(***************************************************************************)
\* the signed view of a state, operator<<(tls::ostream&, State)
Marshal(s) ==
  [group_id |-> s.group_id, epoch |-> s.epoch, roster |-> s.roster,
   tree |-> PublicTree(s.tree), transcript |-> s.transcript]

\* derive_secret(suite, secret, label, state, size): HKDF-Expand of the secret
\* with the label and the encoded state as info
derive_secret(suite, secret, label, state) ==
  Term(label, 0, <<Term(suite, 0, <<>>), secret, Marshal(state)>>)

\* operator==(State, State)
StateEq(lhs, rhs) ==
  /\ lhs.epoch = rhs.epoch
  /\ lhs.group_id = rhs.group_id
  /\ lhs.roster = rhs.roster
  /\ TreeEq(lhs.tree, rhs.tree)
  /\ lhs.message_master_secret = rhs.message_master_secret
  /\ lhs.init_secret = rhs.init_secret

\* State::State(group_id, suite, identity_priv); leaf is the random_bytes(32)
\* drawn for the tree
NewGroupState(group_id, suite, identity_priv, leaf) ==
  [index |-> 0,
   identity_priv |-> identity_priv,
   epoch |-> zero_epoch,
   group_id |-> group_id,
   suite |-> suite,
   message_master_secret |-> EmptyBytes,
   init_secret |-> zero_bytes(32),
   tree |-> RatchetTree(suite, leaf),
   roster |-> roster_add(<<>>, RawKeyCredential(SigPub(identity_priv))),
   transcript |-> <<>>,
   cached_leaf_secret |-> EmptyBytes]

Fail(kind, s) == [ok |-> FALSE, err |-> kind, st |-> s]
Done(s) == [ok |-> TRUE, err |-> "", st |-> s]

\* State::derive_epoch_keys: both secrets come from the same epoch_secret,
\* which is extracted before _init_secret is overwritten
derive_epoch_keys(s, update_secret) ==
  LET epoch_secret == hkdf_extract(s.suite, s.init_secret, update_secret)
      s1 == [s EXCEPT !.message_master_secret =
                        derive_secret(s.suite, epoch_secret, "msg", s)]
  IN [s1 EXCEPT !.init_secret = derive_secret(s.suite, epoch_secret, "init", s1)]

\* the tail of update_leaf and of handle(Add): *(_tree.root().secret())
DeriveFromRoot(s) ==
  IF root_secret(s.tree) = NoSecret THEN Fail("Invariant", s)
  ELSE Done(derive_epoch_keys(s, root_secret(s.tree)))

\* update_leaf after _tree.decrypt(index, *path) returned or threw d:
\* _tree.merge(index, temp_path), then the epoch keys
merge_decrypted(s, index, d) ==
  IF ~d.ok THEN Fail(d.err, s)
  ELSE DeriveFromRoot([s EXCEPT !.tree = tree_merge(s.tree, index, d.nodes)])

\* State::update_leaf
update_leaf(s, index, path, leaf_secret) ==
  IF leaf_secret # NoSecret
  THEN IF index > tree_size(s.tree) THEN Fail("InvalidParameter", s)
       ELSE DeriveFromRoot([s EXCEPT !.tree = set_leaf(s.tree, index, leaf_secret)])
  ELSE merge_decrypted(s, index, tree_decrypt(s.tree, index, path))

\* handle(Add) after _tree.decrypt(tree_size, add.path) returned or threw d:
\* _tree.merge, _roster.add of the new member's credential, the epoch keys
merge_added(s, tsize, d, identity_key) ==
  IF ~d.ok THEN Fail(d.err, s)
  ELSE DeriveFromRoot(
         [s EXCEPT !.tree = tree_merge(s.tree, tsize, d.nodes),
                   !.roster = roster_add(s.roster, RawKeyCredential(identity_key))])

\* handle(Add) that grows the tree and forgets the roster
handle_add_no_roster(s, add) ==
  IF ~uik_verify(add.init_key) THEN Fail("InvalidParameter", s)
  ELSE merge_decrypted(s, tree_size(s.tree),
                       tree_decrypt(s.tree, tree_size(s.tree), add.path))

\* State::handle(const Add&)
handle_add(s, add) ==
  IF ~uik_verify(add.init_key) THEN Fail("InvalidParameter", s)
  ELSE merge_added(s, tree_size(s.tree),
                   tree_decrypt(s.tree, tree_size(s.tree), add.path),
                   add.init_key.identity_key)

\* handle(Update) with the update secret read before the own leaf is set
handle_update_stale_root(s, index, update) ==
  IF index = s.index
  THEN IF s.cached_leaf_secret = EmptyBytes THEN Fail("InvalidParameter", s)
       ELSE LET s1 == [s EXCEPT !.cached_leaf_secret = EmptyBytes]
                keyed == derive_epoch_keys(s1, root_secret(s1.tree))
            IN Done([keyed EXCEPT !.tree = set_leaf(s1.tree, index, s.cached_leaf_secret)])
  ELSE update_leaf(s, index, update.path, NoSecret)

\* handle(Update) that uses the cached leaf secret and keeps it
handle_update_keep_cache(s, index, update) ==
  IF index = s.index
  THEN IF s.cached_leaf_secret = EmptyBytes THEN Fail("InvalidParameter", s)
       ELSE update_leaf(s, index, update.path, s.cached_leaf_secret)
  ELSE update_leaf(s, index, update.path, NoSecret)

\* handle(Update) that takes the path of the message for its own Update too
handle_update_no_cache(s, index, update) ==
  IF index = s.index /\ s.cached_leaf_secret = EmptyBytes
  THEN Fail("InvalidParameter", s)
  ELSE update_leaf(s, index, update.path, NoSecret)

\* State::handle(uint32_t, const Update&)
handle_update(s, index, update) ==
  IF index = s.index
  THEN IF s.cached_leaf_secret = EmptyBytes THEN Fail("InvalidParameter", s)
       ELSE update_leaf([s EXCEPT !.cached_leaf_secret = EmptyBytes],
                        index, update.path, s.cached_leaf_secret)
  ELSE update_leaf(s, index, update.path, NoSecret)

\* handle(Remove) that leaves the roster as it is
handle_remove_no_copy(s, index, remove) ==
  update_leaf(s, remove.removed, remove.path, NoSecret)

\* the second statement of handle(Remove), reached when update_leaf returned:
\* _roster.copy(remove.removed, index)
copy_credential(r, s, removed, index) ==
  IF ~r.ok THEN r
  ELSE IF removed >= Len(r.st.roster) \/ index >= Len(r.st.roster)
  THEN Fail("OutOfRange", s)
  ELSE Done([r.st EXCEPT !.roster = roster_copy(r.st.roster, removed, index)])

\* State::handle(uint32_t, const Remove&)
handle_remove(s, index, remove) ==
  copy_credential(update_leaf(s, remove.removed, remove.path, NoSecret),
                  s, remove.removed, index)

\* what handle(signer, operation) hands back: the copy it worked on, beside
\* the receiver it was called on
Returned(r, s) == [ok |-> r.ok, err |-> r.err, next |-> r.st, self |-> s]

\* handle(signer, operation) with the handlers run on *this instead of a copy
handle_op_in_place(s, signer_index, operation) ==
  LET next == [s EXCEPT !.epoch = s.epoch + 1]
      r == CASE operation.type = "add" -> handle_add(next, operation)
             [] operation.type = "update" -> handle_update(next, signer_index, operation)
             [] operation.type = "remove" -> handle_remove(next, signer_index, operation)
  IN [ok |-> r.ok, err |-> r.err, next |-> r.st, self |-> r.st]

\* handle(signer, operation) without the epoch increment
handle_op_same_epoch(s, signer_index, operation) ==
  LET next == s
      r == CASE operation.type = "add" -> handle_add(next, operation)
             [] operation.type = "update" -> handle_update(next, signer_index, operation)
             [] operation.type = "remove" -> handle_remove(next, signer_index, operation)
  IN [ok |-> r.ok, err |-> r.err, next |-> r.st, self |-> s]

\* State::handle(uint32_t, const GroupOperation&): works on a copy of *this
handle_op(s, signer_index, operation) ==
  LET next == [s EXCEPT !.epoch = s.epoch + 1]
  IN Returned(CASE operation.type = "add" -> handle_add(next, operation)
                [] operation.type = "update" -> handle_update(next, signer_index, operation)
                [] operation.type = "remove" -> handle_remove(next, signer_index, operation),
              s)

\* State::verify; an index past the end of the roster names no credential, so
\* nothing verifies under it
State_verify(s, signer_index, signature) ==
  /\ signer_index < Len(s.roster)
  /\ Verify(roster_get(s.roster, signer_index).public_key, Marshal(s), signature)

\* the end of handle(handshake): next.verify(signer_index, signature) on the
\* state the operation produced
Verified(r, handshake) ==
  IF ~r.ok THEN r
  ELSE IF ~State_verify(r.next, handshake.signer_index, handshake.signature)
  THEN [r EXCEPT !.ok = FALSE, !.err = "InvalidParameter"]
  ELSE r

\* handle(handshake) without the epoch check
State_handle_any_epoch(s, handshake) ==
  Verified(handle_op(s, handshake.signer_index, handshake.operation), handshake)

\* handle(handshake) that does not look at the result of verify
State_handle_unverified(s, handshake) ==
  IF handshake.prior_epoch # s.epoch
  THEN [ok |-> FALSE, err |-> "InvalidParameter", next |-> s, self |-> s]
  ELSE handle_op(s, handshake.signer_index, handshake.operation)

\* State::handle(const Handshake&)
State_handle(s, handshake) ==
  IF handshake.prior_epoch # s.epoch
  THEN [ok |-> FALSE, err |-> "InvalidParameter", next |-> s, self |-> s]
  ELSE Verified(handle_op(s, handshake.signer_index, handshake.operation), handshake)

\* Handshake{_epoch, operation, _index, sig} with sig = _identity_priv.sign of
\* the encoding of the state `r` that handle(_index, operation) returned
Signed(s, operation, r) ==
  [ok |-> r.ok, err |-> r.err,
   handshake |-> [prior_epoch |-> s.epoch, operation |-> operation,
                  signer_index |-> s.index,
                  signature |-> Sign(s.identity_priv, Marshal(r.next))]]

\* State::sign
State_sign(s, operation) == Signed(s, operation, handle_op(s, s.index, operation))

AddOp(path, uik) == [type |-> "add", path |-> path, init_key |-> uik]
UpdateOp(path) == [type |-> "update", path |-> path]
RemoveOp(removed, path) == [type |-> "remove", removed |-> removed, path |-> path]

Offers(uik, suite) == \E i \in 1..Len(uik.cipher_suites) : uik.cipher_suites[i] = suite

\* what a message factory leaves behind: the object it was called on (self),
\* and the messages it returned unless it threw
Threw(kind, s) == [ok |-> FALSE, err |-> kind, self |-> s]
Sent(s, sg) == [ok |-> sg.ok, err |-> sg.err, handshake |-> sg.handshake, self |-> s]
SentWelcome(s, welcome, sg) ==
  [ok |-> sg.ok, err |-> sg.err, welcome |-> welcome, handshake |-> sg.handshake,
   self |-> s]

\* Welcome{_group_id, _epoch, _suite, _roster, _tree, _transcript, _init_secret,
\* leaf_secret}
Welcome(s, leaf_secret) ==
  [group_id |-> s.group_id, epoch |-> s.epoch, cipher_suite |-> s.suite,
   roster |-> s.roster, tree |-> s.tree, transcript |-> s.transcript,
   init_secret |-> s.init_secret, leaf_secret |-> leaf_secret]

\* add that does not look at the suites the init key offers
State_add_any_suite(s, user_init_key, leaf_secret) ==
  IF ~uik_verify(user_init_key) THEN Threw("InvalidParameter", s)
  ELSE SentWelcome(s, Welcome(s, leaf_secret),
                   State_sign(s, AddOp(tree_encrypt(s.tree, tree_size(s.tree), leaf_secret),
                                       user_init_key)))

\* State::add; leaf_secret is the random_bytes(32) it draws
State_add(s, user_init_key, leaf_secret) ==
  IF ~uik_verify(user_init_key) THEN Threw("InvalidParameter", s)
  ELSE IF ~Offers(user_init_key, s.suite) THEN Threw("Protocol", s)
  ELSE SentWelcome(s, Welcome(s, leaf_secret),
                   State_sign(s, AddOp(tree_encrypt(s.tree, tree_size(s.tree), leaf_secret),
                                       user_init_key)))

\* update that keeps the successor it signed over instead of discarding it
State_update_in_place(s, leaf_secret) ==
  LET s1 == [s EXCEPT !.cached_leaf_secret = leaf_secret]
      op == UpdateOp(tree_encrypt(s.tree, s.index, leaf_secret))
  IN Sent(handle_op(s1, s1.index, op).next, State_sign(s1, op))

\* State::update: the leaf secret is cached before the handshake is signed
State_update(s, leaf_secret) ==
  LET s1 == [s EXCEPT !.cached_leaf_secret = leaf_secret]
  IN Sent(s1, State_sign(s1, UpdateOp(tree_encrypt(s.tree, s.index, leaf_secret))))

\* State::remove; evict_secret is the random_bytes(32) it draws
State_remove(s, index, evict_secret) ==
  Sent(s, State_sign(s, RemoveOp(index, tree_encrypt(s.tree, index, evict_secret))))

\* index of the first offered suite equal to `suite`, 0 when there is none
FirstOffer(uik, suite) ==
  LET is == {i \in 1..Len(uik.cipher_suites) : uik.cipher_suites[i] = suite}
  IN IF is = {} THEN 0 ELSE Min(is)

\* the joiner's members initialised at the Welcome's own epoch
JoinInit_welcome_epoch(identity_priv, welcome) ==
  [index |-> tree_size(welcome.tree),
   identity_priv |-> identity_priv,
   epoch |-> welcome.epoch,
   group_id |-> welcome.group_id,
   suite |-> welcome.cipher_suite,
   message_master_secret |-> EmptyBytes,
   init_secret |-> welcome.init_secret,
   tree |-> welcome.tree,
   roster |-> welcome.roster,
   transcript |-> welcome.transcript,
   cached_leaf_secret |-> EmptyBytes]

\* the member initialisers of State::State(identity_priv, init_secret,
\* welcome, handshake)
JoinInit(identity_priv, welcome) ==
  [index |-> tree_size(welcome.tree),
   identity_priv |-> identity_priv,
   epoch |-> welcome.epoch + 1,
   group_id |-> welcome.group_id,
   suite |-> welcome.cipher_suite,
   message_master_secret |-> EmptyBytes,
   init_secret |-> welcome.init_secret,
   tree |-> welcome.tree,
   roster |-> welcome.roster,
   transcript |-> welcome.transcript,
   cached_leaf_secret |-> EmptyBytes]

\* a joining constructor that does not verify the handshake's signature
join_unverified(r, handshake) == r

\* the end of the joining constructor: verify(signer_index, signature) on
\* the state update_leaf left
join_verified(r, handshake) ==
  IF ~r.ok THEN r
  ELSE IF ~State_verify(r.st, handshake.signer_index, handshake.signature)
  THEN Fail("InvalidParameter", r.st)
  ELSE r

\* the joining constructor without the check that the Add is for this identity
JoinState_any_identity(identity_priv, init_secret, welcome, handshake) ==
  LET s0 == JoinInit(identity_priv, welcome)
      add == handshake.operation
  IN IF add.type # "add" THEN Fail("InvalidParameter", s0)
     ELSE LET i == FirstOffer(add.init_key, s0.suite)
              s1 == [s0 EXCEPT !.roster =
                       roster_add(s0.roster,
                                  RawKeyCredential(add.init_key.identity_key))]
          IN IF i = 0 THEN Fail("Protocol", s0)
             ELSE IF add.init_key.init_keys[i] # DHPub(s0.suite, init_secret)
             THEN Fail("Protocol", s0)
             ELSE join_verified(
                    update_leaf(s1, s1.index, add.path, welcome.leaf_secret),
                    handshake)

\* State::State(identity_priv, init_secret, welcome, handshake)
JoinState(identity_priv, init_secret, welcome, handshake) ==
  LET s0 == JoinInit(identity_priv, welcome)
      add == handshake.operation
  IN IF add.type # "add" THEN Fail("InvalidParameter", s0)
     ELSE IF add.init_key.identity_key # SigPub(identity_priv)
     THEN Fail("InvalidParameter", s0)
     ELSE LET i == FirstOffer(add.init_key, s0.suite)
              s1 == [s0 EXCEPT !.roster =
                       roster_add(s0.roster,
                                  RawKeyCredential(add.init_key.identity_key))]
          IN IF i = 0 THEN Fail("Protocol", s0)
             ELSE IF add.init_key.init_keys[i] # DHPub(s0.suite, init_secret)
             THEN Fail("Protocol", s0)
             ELSE join_verified(
                    update_leaf(s1, s1.index, add.path, welcome.leaf_secret),
                    handshake)

\* InitialGroupInfo(state, welcome_add), unless add or handle threw; the
\* State that handle returned is not kept
InitialGroupInfo(state, welcome_add, applied) ==
  IF ~welcome_add.ok THEN [ok |-> FALSE, err |-> welcome_add.err]
  ELSE IF ~applied.ok THEN [ok |-> FALSE, err |-> applied.err]
  ELSE [ok |-> TRUE, err |-> "", state |-> welcome_add.self,
        welcome |-> welcome_add.welcome, handshake |-> welcome_add.handshake]

\* create_group from `auto welcome_add = state.add(user_init_key)` on
applied_add(state, welcome_add) ==
  InitialGroupInfo(state, welcome_add,
                   IF welcome_add.ok THEN State_handle(welcome_add.self, welcome_add.handshake)
                   ELSE [ok |-> FALSE, err |-> welcome_add.err])

\* the suites of supported_ciphersuites that user_init_key offers, by position
Common(supported_ciphersuites, user_init_key) ==
  {i \in 1..Len(supported_ciphersuites) :
     Offers(user_init_key, supported_ciphersuites[i])}

\* the negotiation loop of create_group; `CipherSuite suite;` is assigned
\* only when a suite matches, and holds whatever it held otherwise
negotiated(supported_ciphersuites, user_init_key, unassigned) ==
  IF Common(supported_ciphersuites, user_init_key) = {} THEN unassigned
  ELSE supported_ciphersuites[Min(Common(supported_ciphersuites, user_init_key))]

\* create_group; unassigned is the value of the uninitialised `suite`, leaf
\* and add_leaf are the random_bytes(32) drawn by State{...} and add
create_group(group_id, supported_ciphersuites, identity_priv, user_init_key, unassigned, leaf, add_leaf) ==
  \* (state, welcome_add) |-> InitialGroupInfo
  applied_add(
    NewGroupState(group_id,
                  negotiated(supported_ciphersuites, user_init_key, unassigned),
                  identity_priv, leaf),
    State_add(NewGroupState(group_id,
                            negotiated(supported_ciphersuites, user_init_key, unassigned),
                            identity_priv, leaf),
              user_init_key, add_leaf))

(***************************************************************************)
(* Inputs.                                                                 *)
(***************************************************************************)
\* the suites member j offers in its published UserInitKey: the last member
\* offers a second suite ahead of the group's
SuitesOf(j) == IF j = NumMembers THEN <<OtherSuite, GroupSuite>> ELSE <<GroupSuite>>
UIKOf(j) == UserInitKey(j, SuitesOf(j))

\* a signature, or signed object, with some byte altered
AlterSig(sig) == [sig EXCEPT !.ok = FALSE]
TamperSig(h) == [h EXCEPT !.signature = AlterSig(h.signature)]
TamperUIK(h) ==
  [h EXCEPT !.operation.init_key.signature = AlterSig(h.operation.init_key.signature)]

\* what a caller may pass to add: a published key, one with a broken
\* signature, one that does not offer the group's suite
UIKInputs ==
  {UIKOf(j) : j \in Members}
    \cup {[UIKOf(j) EXCEPT !.signature = AlterSig(UIKOf(j).signature)] : j \in Members}
    \cup {UserInitKey(j, <<OtherSuite>>) : j \in Members}

\* what a caller passes as supported_ciphersuites
SuiteLists ==
  {<<>>, <<GroupSuite>>, <<OtherSuite>>, <<GroupSuite, OtherSuite>>,
   <<OtherSuite, GroupSuite>>}
\* the values a CipherSuite object may hold
Suites == {GroupSuite, OtherSuite}

\* an Add for a key of identity j that offers only another suite than the
\* group's, signed by a member in state s (the handshake sign returns for
\* Add{path, user_init_key}); add itself refuses to make one
UnofferedAdd(s, j, leaf_secret) ==
  State_sign(s, AddOp(tree_encrypt(s.tree, tree_size(s.tree), leaf_secret),
                      UserInitKey(j, <<OtherSuite>>))).handshake

\* the entry of the UserInitKey that handle(Add) takes:
\* add.init_key.init_keys[0]
SelectedInitKey(add) == add.init_key.init_keys[1]

\* a Welcome as it arrives over the wire: the tree carries public keys only
WireTree(tree) ==
  [tree EXCEPT !.nodes = [p \in 1..Len(tree.nodes) |->
                            [tree.nodes[p] EXCEPT !.secret = NoSecret]]]
WireWelcome(w) == [w EXCEPT !.tree = WireTree(w.tree)]

(***************************************************************************)
(* HKDF::expand, one loop iteration per step.  Here bytes are octets       *)
(* 0..255 and the block counter is a uint8_t.  HMAC comes from the crypto  *)
(* library; all expand needs of it is that it is a function of key and     *)
(* data that returns HashLen octets.                                       *)
(***************************************************************************)
\* uint8_t arithmetic of `i += 1`
UInt8 == 256
next_counter(i) == (i + 1) % UInt8

\* the running value of a digest after the octets of data went in
RECURSIVE absorb(_, _)
absorb(acc, data) ==
  IF data = <<>> THEN acc
  ELSE absorb((31 * acc + Head(data) + 1) % UInt8, Tail(data))

\* digest.hmac(key, data): HashLen octets
hmac(key, data) == [k \in 1..HashLen |-> absorb(absorb(k, key), data)]

\* bytes{ i }: the one byte holding the counter
octet(i) == <<i>>

\* what a caller passes as prk, info and size: sizes around no block, one
\* block, and as many blocks as the counter has values
PrkInputs == {<<11>>}
InfoInputs == {<<>>, <<7>>}
SizeInputs ==
  {0, 1, HashLen, HashLen + 1, (UInt8 - 1) * HashLen, (UInt8 - 1) * HashLen + 1,
   UInt8 * HashLen + 1}

HkIdle == [pc |-> "idle"]

\* okm.resize(size)
resize(okm, size) == SubSeq(okm, 1, size)

\* T(n) of RFC 5869 from T(n - 1), with the block number n as it is:
\* T(n) = HMAC(prk, T(n - 1) | info | n)
RFC_T(prk, info, prev, n) == hmac(prk, prev \o info \o octet(n))

(***************************************************************************)
(* The system: each member holds at most one State; handshakes and         *)
(* welcomes stay in flight and may be delivered to anyone, in any order,   *)
(* any number of times.                                                    *)
(***************************************************************************)
VARIABLES st, hs, ws, last, hk

\* the group: member states, messages in flight, the latest call
group == <<st, hs, ws, last>>
\* calls of the library functions
calls == <<hk>>
vars == <<st, hs, ws, last, hk>>

NoState == [live |-> FALSE]

Live == {m \in Members : st[m] # NoState}

\* what a handler may be handed: a handshake in flight, or one altered on the way
HandshakeInputs ==
  hs \cup {TamperSig(h) : h \in hs}
     \cup {TamperUIK(h) : h \in {g \in hs : g.operation.type = "add"}}

\* a Welcome reaches the new member in its wire form
WelcomeInputs == {WireWelcome(w) : w \in ws}

\* a Welcome in flight, or one that names another suite than its group's
SuiteWelcomes ==
  WelcomeInputs \cup {[w EXCEPT !.cipher_suite = OtherSuite] : w \in WelcomeInputs}

\* the outcome of the latest call: which operation, on whose state, whether it
\* returned, and the kind of error it threw
Called(op, m, ok, err) == [op |-> op, m |-> m, ok |-> ok, err |-> err]

\* member 1 founds the group: State{group_id, suite, identity_priv}
Init ==
  /\ st = [m \in Members |->
             IF m = 1
             THEN NewGroupState(GroupId, GroupSuite, SigPriv(m),
                                random_bytes("new_group", 0, zero_epoch, m, 1))
             ELSE NoState]
  /\ hs = {}
  /\ ws = {}
  /\ last = Called("new_group", 1, TRUE, "")
  /\ hk = HkIdle

CanSend(m) ==
  /\ st[m] # NoState
  /\ st[m].epoch < MaxEpoch
  /\ Cardinality(hs) < MaxMsgs

\* the identities a caller passes to add are not yet in its roster
InRoster(s, pub) == \E i \in 1..Len(s.roster) : s.roster[i].public_key = pub

\* state.add(user_init_key)
Add(m, uik, d) ==
  /\ CanSend(m)
  /\ tree_size(st[m].tree) < MaxLeaves
  /\ ~InRoster(st[m], uik.identity_key)
  /\ \E r \in {State_add(st[m], uik,
                         random_bytes("add", uik.identity_key.n, st[m].epoch, m, d))} :
        /\ st' = [st EXCEPT ![m] = r.self]
        /\ hs' = IF r.ok THEN hs \cup {r.handshake} ELSE hs
        /\ ws' = IF r.ok THEN ws \cup {r.welcome} ELSE ws
        /\ last' = Called("add", m, r.ok, r.err)
  /\ UNCHANGED calls

\* state.update(leaf_secret)
Update(m, k) ==
  /\ CanSend(m)
  /\ \E r \in {State_update(st[m], UpdSecret(k))} :
        /\ st' = [st EXCEPT ![m] = r.self]
        /\ hs' = IF r.ok THEN hs \cup {r.handshake} ELSE hs
        /\ last' = Called("update", m, r.ok, r.err)
  /\ UNCHANGED <<ws, calls>>

\* state.remove(index)
Remove(m, index, d) ==
  /\ CanSend(m)
  /\ index < tree_size(st[m].tree)
  /\ \E r \in {State_remove(st[m], index,
                            random_bytes("remove", index, st[m].epoch, m, d))} :
        /\ st' = [st EXCEPT ![m] = r.self]
        /\ hs' = IF r.ok THEN hs \cup {r.handshake} ELSE hs
        /\ last' = Called("remove", m, r.ok, r.err)
  /\ UNCHANGED <<ws, calls>>

\* state = state.handle(handshake): the caller keeps the successor when
\* handle returns one, and its old object when handle throws
Handle(m, h) ==
  /\ st[m] # NoState
  /\ \E r \in {State_handle(st[m], h)} :
        /\ st' = [st EXCEPT ![m] = IF r.ok THEN r.next ELSE r.self]
        /\ last' = Called("handle", m, r.ok, r.err)
  /\ UNCHANGED <<hs, ws, calls>>

\* State{identity_priv, init_secret, welcome, handshake}; the caller passes
\* the init secret of its own UserInitKey or, by mistake, another one
Join(m, k, w, h) ==
  /\ st[m] = NoState
  /\ \E r \in {JoinState(SigPriv(m), UserInitSecret(k), w, h)} :
        /\ st' = [st EXCEPT ![m] = IF r.ok THEN r.st ELSE NoState]
        /\ last' = Called("join", m, r.ok, r.err)
  /\ UNCHANGED <<hs, ws, calls>>

Next ==
  \/ \E m \in Members : \E uik \in UIKInputs : \E d \in 1..NumDraws : Add(m, uik, d)
  \/ \E m \in Members : \E k \in 1..NumUpdSecrets : Update(m, k)
  \/ \E m \in Members : \E index \in 0..(MaxLeaves - 1) : \E d \in 1..NumDraws :
       Remove(m, index, d)
  \/ \E m \in Members : \E h \in HandshakeInputs : Handle(m, h)
  \/ \E m \in Members : \E k \in Members : \E w \in WelcomeInputs : \E h \in hs :
       Join(m, k, w, h)

Spec == Init /\ [][Next]_vars

\* HKDF::expand(prk, info, size) is entered: okm = {}, i = 0, Ti = {}
Expand(prk, info, size) ==
  /\ hk.pc = "idle"
  /\ hk' = [pc |-> "loop", prk |-> prk, info |-> info, size |-> size,
            okm |-> <<>>, i |-> 0, Ti |-> <<>>]
  /\ UNCHANGED group

\* one pass of `while (okm.size() < size)`
ExpandBlock ==
  /\ hk.pc = "loop"
  /\ Len(hk.okm) < hk.size
  /\ \E Ti \in {hmac(hk.prk, hk.Ti \o hk.info \o octet(next_counter(hk.i)))} :
       hk' = [hk EXCEPT !.i = next_counter(hk.i), !.Ti = Ti, !.okm = hk.okm \o Ti]
  /\ UNCHANGED group

\* the loop is left: okm.resize(size); return okm
ExpandReturn ==
  /\ hk.pc = "loop"
  /\ Len(hk.okm) >= hk.size
  /\ hk' = [hk EXCEPT !.pc = "done", !.okm = resize(hk.okm, hk.size)]
  /\ UNCHANGED group

HkdfNext ==
  \/ \E prk \in PrkInputs : \E info \in InfoInputs : \E size \in SizeInputs :
       Expand(prk, info, size)
  \/ ExpandBlock
  \/ ExpandReturn

HkdfSpec == Init /\ [][HkdfNext]_vars

\* no State has been constructed yet
CreateInit ==
  /\ st = [m \in Members |-> NoState]
  /\ hs = {}
  /\ ws = {}
  /\ last = Called("none", 1, TRUE, "")
  /\ hk = HkIdle

\* info = create_group(group_id, supported_ciphersuites, identity_priv,
\* user_init_key): the caller keeps info.state and sends the Welcome and the
\* Add handshake
CreateGroup(m, supported_ciphersuites, uik, unassigned, d) ==
  /\ Live = {}
  /\ \E r \in {create_group(GroupId, supported_ciphersuites, SigPriv(m), uik, unassigned,
                             random_bytes("new_group", 0, zero_epoch, m, 1),
                             random_bytes("add", uik.identity_key.n, zero_epoch, m, d))} :
        /\ st' = IF r.ok THEN [st EXCEPT ![m] = r.state] ELSE st
        /\ hs' = IF r.ok THEN {r.handshake} ELSE hs
        /\ ws' = IF r.ok THEN {r.welcome} ELSE ws
        /\ last' = Called("create_group", m, r.ok, r.err)
  /\ UNCHANGED calls

CreateNext ==
  \/ \E m \in Members : \E supported_ciphersuites \in SuiteLists : \E uik \in UIKInputs :
       \E unassigned \in Suites : \E d \in 1..NumDraws :
         CreateGroup(m, supported_ciphersuites, uik, unassigned, d)
  \/ \E m \in Members : \E h \in HandshakeInputs : Handle(m, h)
  \/ \E m \in Members : \E k \in Members : \E w \in WelcomeInputs : \E h \in hs :
       Join(m, k, w, h)

CreateSpec == CreateInit /\ [][CreateNext]_vars

(***************************************************************************)
(* Properties.                                                             *)
(***************************************************************************)
\* handshake h is the one that produced state s: it was made for the epoch
\* before and its signature covers s
Produced(h, s) ==
  /\ h.prior_epoch + 1 = s.epoch
  /\ State_verify(s, h.signer_index, h.signature)

\* C1: two members whose states are equal (operator==) and who both
\* successfully apply the same handshake hold equal states again afterwards,
\* also when one of them authored it and takes the cached-leaf-secret branch.
C1_Determinism ==
  \A m1 \in Live : \A m2 \in Live : \A h \in HandshakeInputs :
    LET r1 == State_handle(st[m1], h)
        r2 == State_handle(st[m2], h)
    IN (m1 < m2 /\ StateEq(st[m1], st[m2]) /\ r1.ok /\ r2.ok)
         => StateEq(r1.next, r2.next)

\* two members are in equal states after both applied an Update that one of
\* them authored
C1_Witness ==
  \E m1 \in Live : \E m2 \in Live : \E h \in hs :
    /\ m1 # m2
    /\ h.operation.type = "update"
    /\ h.signer_index = st[m1].index
    /\ Produced(h, st[m1])
    /\ Produced(h, st[m2])
    /\ StateEq(st[m1], st[m2])
    /\ last = Called("handle", m2, TRUE, "")

\* C2: handle leaves the state it is called on as it was, whether it returns
\* a successor or throws; when it throws the caller is left with that state.
C2_ReceiverUnchanged ==
  /\ [](\A m \in Live : \A h \in HandshakeInputs : State_handle(st[m], h).self = st[m])
  /\ [][(last'.op = "handle" /\ ~last'.ok) => (st' = st /\ hs' = hs /\ ws' = ws)]_vars

\* a handle call has just failed on a decryption error, on a member that had
\* moved past the first epoch
C2_Witness ==
  /\ last.op = "handle"
  /\ ~last.ok
  /\ last.err = "Crypto"
  /\ st[last.m].epoch > zero_epoch

\* C3: a successful handle returns a state whose epoch is the receiver's plus
\* one; a member's epoch changes in no other step.
C3_EpochMonotonic ==
  /\ [](\A m \in Live : \A h \in HandshakeInputs :
          LET r == State_handle(st[m], h)
          IN r.ok => r.next.epoch = st[m].epoch + 1)
  /\ [][\A m \in Members :
          st[m] # NoState =>
            /\ st'[m] # NoState
            /\ st'[m].epoch =
                 IF last' = Called("handle", m, TRUE, "") /\ st'[m] # st[m]
                 THEN st[m].epoch + 1 ELSE st[m].epoch]_vars

\* the founder has applied handshakes up to the last epoch of the model
C3_Witness ==
  /\ 1 \in Live
  /\ st[1].epoch = MaxEpoch
  /\ last = Called("handle", 1, TRUE, "")

\* C4: handle rejects, with an InvalidParameter error and before it looks at
\* the operation, every handshake whose prior_epoch is not the receiver's
\* epoch; a handshake a member has just applied is rejected by the successor.
C4_EpochOrdering ==
  /\ [](\A m \in Live : \A h \in HandshakeInputs :
          LET r == State_handle(st[m], h)
          IN h.prior_epoch # st[m].epoch =>
               (~r.ok /\ r.err = "InvalidParameter" /\ r.self = st[m]))
  /\ [][\A m \in Members : \A h \in HandshakeInputs :
          (/\ st[m] # NoState
           /\ last' = Called("handle", m, TRUE, "")
           /\ State_handle(st[m], h).ok
           /\ st'[m] = State_handle(st[m], h).next)
            => LET again == State_handle(st'[m], h)
               IN ~again.ok /\ again.err = "InvalidParameter" /\ again.self = st'[m]]_vars

\* the founder, two epochs on, has just had a handshake rejected for its
\* epoch: the Add of epoch 0 is still in flight and nothing in flight is for
\* the founder's epoch
C4_Witness ==
  /\ 1 \in Live
  /\ st[1].epoch >= 2
  /\ last = Called("handle", 1, FALSE, "InvalidParameter")
  /\ \E h \in hs : h.operation.type = "add" /\ h.prior_epoch = zero_epoch
  /\ \A h \in hs : h.prior_epoch # st[1].epoch

\* C5: handle returns a successor only if the handshake's signature verifies
\* under the key of roster[signer_index] of the successor over the encoding
\* of the successor obtained by applying the operation; a handshake in flight
\* with its signature bytes altered is rejected and the receiver is unchanged.
C5_SignatureSoundness ==
  \A m \in Live : \A h \in HandshakeInputs :
    LET r == State_handle(st[m], h)
        applied == handle_op(st[m], h.signer_index, h.operation)
        altered == State_handle(st[m], TamperSig(h))
    IN /\ r.ok =>
            /\ applied.ok
            /\ r.next = applied.next
            /\ h.signer_index < Len(r.next.roster)
            /\ Verify(roster_get(r.next.roster, h.signer_index).public_key,
                      Marshal(r.next), h.signature)
       /\ ~altered.ok
       /\ altered.self = st[m]

\* a member has just had a handle rejected in a state where every handshake
\* in flight is acceptable as sent, so the one rejected had been altered
C5_Witness ==
  \E m \in Live :
    /\ last = Called("handle", m, FALSE, "InvalidParameter")
    /\ hs # {}
    /\ \A h \in hs :
         /\ h.operation.type # "add"
         /\ State_handle(st[m], h).ok
         /\ ~State_handle(st[m], TamperSig(h)).ok

\* C6: when a member adds a valid UserInitKey, applies the Add itself, and
\* the new member joins with the Welcome and the Add, the two states are
\* equal, at the adder's epoch plus one, and the new member's leaf index is
\* the leaf count before the add.
C6_AdderJoinerAgree ==
  \A m \in Live : \A j \in Members : \A d \in 1..NumDraws :
    LET A == st[m]
        r == State_add(A, UIKOf(j), random_bytes("add", j, A.epoch, m, d))
        A2 == State_handle(r.self, r.handshake)
        B2 == JoinState(SigPriv(j), UserInitSecret(j), WireWelcome(r.welcome), r.handshake)
    IN r.ok =>
         /\ A2.ok
         /\ B2.ok
         /\ StateEq(A2.next, B2.st)
         /\ A2.next.epoch = A.epoch + 1
         /\ B2.st.epoch = A.epoch + 1
         /\ B2.st.index = tree_size(A.tree)

\* a new member has just joined and its state equals that of a member who
\* applied the Add
C6_Witness ==
  \E m \in Live : \E j \in Live : \E h \in hs :
    /\ m # j
    /\ last = Called("join", j, TRUE, "")
    /\ h.operation.type = "add"
    /\ Produced(h, st[m])
    /\ Produced(h, st[j])
    /\ st[j].index = Len(st[j].roster) - 1
    /\ StateEq(st[m], st[j])

\* C7: after a Remove of leaf r is applied, the tree slot of leaf r in the
\* successor is blank.
C7_RemovedLeafBlank ==
  \A m \in Live : \A h \in HandshakeInputs :
    LET r == State_handle(st[m], h)
    IN (h.operation.type = "remove" /\ r.ok)
         => ~occupied(r.next.tree, h.operation.removed)

\* C8: after a Remove of leaf r signed by s is applied, roster[r] is the
\* credential roster[s] had, every other entry and the length are unchanged.
C8_RemoveCopiesCredential ==
  \A m \in Live : \A h \in HandshakeInputs :
    LET r == State_handle(st[m], h)
    IN (h.operation.type = "remove" /\ r.ok)
         => r.next.roster =
              [st[m].roster EXCEPT ![h.operation.removed + 1] =
                                     st[m].roster[h.signer_index + 1]]

\* a member that is neither the remover nor the removed has just applied a
\* Remove, and the removed leaf's roster entry is the remover's credential
C8_Witness ==
  \E m \in Live : \E h \in hs :
    /\ last = Called("handle", m, TRUE, "")
    /\ h.operation.type = "remove"
    /\ Produced(h, st[m])
    /\ h.operation.removed # h.signer_index
    /\ st[m].index # h.signer_index
    /\ st[m].index # h.operation.removed
    /\ st[m].roster[h.operation.removed + 1] = st[m].roster[h.signer_index + 1]
    /\ st[m].roster[h.operation.removed + 1] # st[m].roster[st[m].index + 1]

\* C9: in every state a member holds the roster has as many entries as the
\* tree has leaves and the member's own entry is at its own leaf index; an Add
\* grows both by one with the new credential at the new leaf's index, an
\* Update or a Remove changes neither size.
C9_RosterTreeSize ==
  /\ \A m \in Live :
       /\ Len(st[m].roster) = tree_size(st[m].tree)
       /\ st[m].index < Len(st[m].roster)
       /\ roster_get(st[m].roster, st[m].index)
            = RawKeyCredential(SigPub(st[m].identity_priv))
  /\ \A m \in Live : \A h \in HandshakeInputs :
       LET r == State_handle(st[m], h)
           n == tree_size(st[m].tree)
       IN r.ok =>
            IF h.operation.type = "add"
            THEN /\ Len(r.next.roster) = Len(st[m].roster) + 1
                 /\ tree_size(r.next.tree) = n + 1
                 /\ occupied(r.next.tree, n)
                 /\ roster_get(r.next.roster, n)
                      = RawKeyCredential(h.operation.init_key.identity_key)
            ELSE /\ Len(r.next.roster) = Len(st[m].roster)
                 /\ tree_size(r.next.tree) = n

\* a member of a full group has just applied a handshake
C9_Witness ==
  \E m \in Live :
    /\ last = Called("handle", m, TRUE, "")
    /\ Len(st[m].roster) = MaxLeaves
    /\ tree_size(st[m].tree) = MaxLeaves

\* C10: an Update signed with the member's own index is rejected with an
\* InvalidParameter error when the member's cached_leaf_secret is empty; when
\* it is applied the successor's cached_leaf_secret is empty, and the
\* successor rejects every self-signed Update in the same way.
C10_SelfUpdateNeedsCache ==
  \A m \in Live : \A h \in HandshakeInputs :
    LET r == State_handle(st[m], h)
    IN (h.operation.type = "update" /\ h.signer_index = st[m].index) =>
         /\ st[m].cached_leaf_secret = EmptyBytes =>
              (~r.ok /\ r.err = "InvalidParameter" /\ r.self = st[m])
         /\ r.ok =>
              /\ r.next.cached_leaf_secret = EmptyBytes
              /\ \A g \in HandshakeInputs :
                   (g.operation.type = "update" /\ g.signer_index = r.next.index) =>
                     LET second == State_handle(r.next, g)
                     IN ~second.ok /\ second.err = "InvalidParameter"

\* a member has just applied the Update it authored and its cache is empty
C10_Witness ==
  \E m \in Live : \E h \in hs :
    /\ last = Called("handle", m, TRUE, "")
    /\ h.operation.type = "update"
    /\ h.signer_index = st[m].index
    /\ Produced(h, st[m])
    /\ Verify(SigPub(st[m].identity_priv), Marshal(st[m]), h.signature)
    /\ st[m].cached_leaf_secret = EmptyBytes

\* C11: add returns a Welcome and a Handshake only for an init key that
\* verifies and offers the group's suite; a key with a bad signature fails
\* with InvalidParameter, a key that does not offer the suite with Protocol;
\* a failing add leaves the state and the messages in flight as they were; a
\* successful add returns a Welcome with the caller's group_id, epoch, suite,
\* roster, tree, transcript and init_secret and a Handshake whose prior_epoch
\* is the caller's epoch.
C11_AddContract ==
  /\ [](\A m \in Live : \A uik \in UIKInputs : \A d \in 1..NumDraws :
          \E r \in {State_add(st[m], uik,
                               random_bytes("add", uik.identity_key.n, st[m].epoch, m, d))} :
            /\ r.self = st[m]
            /\ r.ok <=> (uik_verify(uik) /\ Offers(uik, st[m].suite))
            /\ ~uik_verify(uik) => r.err = "InvalidParameter"
            /\ (uik_verify(uik) /\ ~Offers(uik, st[m].suite)) => r.err = "Protocol"
            /\ r.ok =>
                 /\ r.welcome.group_id = st[m].group_id
                 /\ r.welcome.epoch = st[m].epoch
                 /\ r.welcome.cipher_suite = st[m].suite
                 /\ r.welcome.roster = st[m].roster
                 /\ r.welcome.tree = st[m].tree
                 /\ r.welcome.transcript = st[m].transcript
                 /\ r.welcome.init_secret = st[m].init_secret
                 /\ r.handshake.prior_epoch = st[m].epoch
                 /\ r.handshake.operation.type = "add"
                 /\ r.handshake.operation.init_key = uik)
  /\ [][(last'.op = "add" /\ ~last'.ok) => (st' = st /\ hs' = hs /\ ws' = ws)]_vars

\* an add has just failed because the key does not offer the group's suite,
\* in a group that had added a member before
C11_Witness ==
  /\ last.op = "add"
  /\ ~last.ok
  /\ last.err = "Protocol"
  /\ ws # {}
  /\ st[last.m].epoch > zero_epoch

\* C12: handle of an Add takes the entry of the UserInitKey whose suite is the
\* group's suite, and rejects with a Protocol error, leaving the state as it
\* was, an Add whose UserInitKey offers no entry for the group's suite.
C12_HandleAddSuite ==
  /\ \A m \in Live : \A h \in hs :
       (h.operation.type = "add" /\ State_handle(st[m], h).ok) =>
         /\ Offers(h.operation.init_key, st[m].suite)
         /\ SelectedInitKey(h.operation) =
              h.operation.init_key.init_keys[FirstOffer(h.operation.init_key, st[m].suite)]
  /\ \A m \in Live : \A j \in Members :
       \E r \in {State_handle(st[m],
                     UnofferedAdd(st[m], j, random_bytes("add", j, st[m].epoch, m, 1)))} :
         ~r.ok /\ r.err = "Protocol" /\ r.self = st[m]

\* C13: the joining constructor fails with InvalidParameter when the handshake
\* is not an Add or the Add's identity key is not the joiner's, and with
\* Protocol when the Welcome's suite is not offered by the Add's init key or
\* the init key offered for it is not the public key of init_secret; a failed
\* join produces no state.
C13_JoinRejects ==
  /\ [](\A m \in Members : \A k \in Members : \A w \in SuiteWelcomes :
          \A h \in HandshakeInputs :
            \E r \in {JoinState(SigPriv(m), UserInitSecret(k), w, h)} :
              IF h.operation.type # "add"
              THEN ~r.ok /\ r.err = "InvalidParameter"
              ELSE IF h.operation.init_key.identity_key # SigPub(SigPriv(m))
              THEN ~r.ok /\ r.err = "InvalidParameter"
              ELSE IF ~Offers(h.operation.init_key, w.cipher_suite)
              THEN ~r.ok /\ r.err = "Protocol"
              ELSE h.operation.init_key.init_keys[
                       FirstOffer(h.operation.init_key, w.cipher_suite)]
                     # DHPub(w.cipher_suite, UserInitSecret(k))
                   => (~r.ok /\ r.err = "Protocol"))
  /\ [][(last'.op = "join" /\ ~last'.ok) => (st' = st /\ hs' = hs /\ ws' = ws)]_vars

\* a member has just failed to join with a Protocol error, and an earlier
\* member had joined: the Add was for it, the init secret was not its own
C13_Witness ==
  /\ last.op = "join"
  /\ ~last.ok
  /\ last.err = "Protocol"
  /\ st[last.m] = NoState
  /\ \E j \in Live : st[j].index > 0

\* C14: for every handshake applied, with update_secret the root secret of the
\* successor's tree and epoch_secret = HKDF-Extract(predecessor.init_secret,
\* update_secret), the successor's message_master_secret is
\* derive_secret(epoch_secret, "msg", successor) and its init_secret is
\* derive_secret(epoch_secret, "init", successor).
C14_EpochKeyChain ==
  \A m \in Live : \A h \in HandshakeInputs :
    \E r \in {State_handle(st[m], h)} :
      r.ok =>
        \E epoch_secret \in {hkdf_extract(st[m].suite, st[m].init_secret,
                                          root_secret(r.next.tree))} :
          /\ root_secret(r.next.tree) # NoSecret
          /\ r.next.message_master_secret =
               derive_secret(r.next.suite, epoch_secret, "msg", r.next)
          /\ r.next.init_secret =
               derive_secret(r.next.suite, epoch_secret, "init", r.next)

\* the shape of a tree: 2 * leaves - 1 nodes (none for no leaf), leaf i at node
\* 2i, and above every occupied leaf no blank node up to the root
TreeShape(tree) ==
  /\ Len(tree.nodes) = node_width(tree_size(tree))
  /\ \A i \in 0..(tree_size(tree) - 1) :
       /\ level(2 * i) = 0
       /\ 2 * i < Len(tree.nodes)
       /\ occupied(tree, i) =>
            \A k \in 1..Len(direct_path[tree_size(tree)][2 * i]) :
              ~Node(tree, direct_path[tree_size(tree)][2 * i][k]).blank

\* C15: the tree of every state a member holds, and of every state handle
\* returns, has 2 * leaf_span - 1 nodes with leaf i at node 2i, and every
\* interior node above a non-blank leaf is non-blank.
C15_TreeShape ==
  /\ \A m \in Live : TreeShape(st[m].tree)
  /\ \A m \in Live : \A h \in HandshakeInputs :
       \E r \in {State_handle(st[m], h)} : r.ok => TreeShape(r.next.tree)

\* a member has just joined as the last leaf of a full tree, below a root
\* that covers all leaves
C15_Witness ==
  \E m \in Live :
    /\ last = Called("join", m, TRUE, "")
    /\ tree_size(st[m].tree) = MaxLeaves
    /\ st[m].index = MaxLeaves - 1
    /\ occupied(st[m].tree, st[m].index)
    /\ Len(direct_path[MaxLeaves][2 * st[m].index]) >= 1

\* C16: expand returns exactly L bytes, the first L bytes of
\* T(1) | T(2) | ... | T(N) of RFC 5869 with N = ceil(L / HashLen), and the
\* one-byte block counter is the number of the block, at most 255: it never
\* wraps around to 0.
C16_HkdfExpand ==
  /\ [](/\ hk.pc = "loop" => (hk.i * HashLen = Len(hk.okm) /\ hk.i <= UInt8 - 1)
        /\ hk.pc = "done" => Len(hk.okm) = hk.size)
  /\ [][/\ (hk.pc = "loop" /\ hk'.pc = "loop") =>
            \E n \in {Len(hk.okm) \div HashLen + 1} :
              /\ n <= UInt8 - 1
              /\ hk.Ti = (IF n = 1 THEN <<>> ELSE SubSeq(hk.okm, Len(hk.okm) - HashLen + 1,
                                                         Len(hk.okm)))
              /\ hk'.Ti = RFC_T(hk.prk, hk.info, hk.Ti, n)
              /\ hk'.okm = hk.okm \o hk'.Ti
         /\ (hk.pc = "loop" /\ hk'.pc = "done") =>
              /\ Len(hk.okm) >= hk.size
              /\ Len(hk.okm) - hk.size < HashLen
              /\ hk'.okm = SubSeq(hk.okm, 1, hk.size)]_vars

\* the fields of a State that only a handler or a constructor may set
SameGroupView(a, b) ==
  /\ a.epoch = b.epoch
  /\ a.roster = b.roster
  /\ a.tree = b.tree
  /\ a.transcript = b.transcript
  /\ a.init_secret = b.init_secret
  /\ a.message_master_secret = b.message_master_secret

\* C17: add, update and remove leave the receiver's epoch, roster, tree,
\* transcript, init_secret and message_master_secret as they were; update
\* sets cached_leaf_secret to the given leaf secret and changes nothing
\* else, add and remove change nothing at all; this holds for the calls any
\* member could make in any reachable state and for the steps taken.
C17_FactoriesKeepState ==
  /\ [](\A m \in Live :
          /\ \A uik \in UIKInputs : \A d \in 1..NumDraws :
               State_add(st[m], uik,
                         random_bytes("add", uik.identity_key.n, st[m].epoch, m, d)).self
                 = st[m]
          /\ \A index \in 0..(tree_size(st[m].tree) - 1) : \A d \in 1..NumDraws :
               State_remove(st[m], index,
                            random_bytes("remove", index, st[m].epoch, m, d)).self = st[m]
          /\ \A k \in 1..NumUpdSecrets :
               \E r \in {State_update(st[m], UpdSecret(k))} :
                 /\ SameGroupView(r.self, st[m])
                 /\ r.self = [st[m] EXCEPT !.cached_leaf_secret = UpdSecret(k)])
  /\ [][/\ last'.op \in {"add", "remove"} => st' = st
        /\ last'.op = "update" =>
             \E k \in 1..NumUpdSecrets :
               st' = [st EXCEPT ![last'.m].cached_leaf_secret = UpdSecret(k)]]_vars

\* a member past the first epoch has just made an Update: the handshake is
\* in flight for the member's epoch, which is still the epoch it was made at
C17_Witness ==
  \E h \in hs :
    /\ last.op = "update"
    /\ last.ok
    /\ st[last.m].epoch > zero_epoch
    /\ st[last.m].cached_leaf_secret # EmptyBytes
    /\ h.operation.type = "update"
    /\ h.signer_index = st[last.m].index
    /\ h.prior_epoch = st[last.m].epoch

\* C18: a member accepts the Update it made at its present epoch exactly
\* when its cached_leaf_secret is the leaf secret the Update was built
\* from: update(s) followed directly by handle succeeds; after update(s1)
\* and then update(s2) with another secret, handle of the first handshake
\* is rejected and leaves the state as it is, and handle of the second
\* succeeds.
C18_OwnUpdateNeedsItsSecret ==
  \A m \in Live : \A k \in 1..NumUpdSecrets :
    \E u \in {State_update(st[m], UpdSecret(k))} :
      /\ u.ok
      /\ u.handshake \in hs =>
           (State_handle(st[m], u.handshake).ok
              <=> st[m].cached_leaf_secret = UpdSecret(k))
      /\ State_handle(u.self, u.handshake).ok
      /\ \A k2 \in 1..NumUpdSecrets \ {k} :
           \E u2 \in {State_update(u.self, UpdSecret(k2))} :
             /\ u2.ok
             /\ \E r \in {State_handle(u2.self, u.handshake)} :
                  ~r.ok /\ r.self = u2.self
             /\ State_handle(u2.self, u2.handshake).ok

\* a member past the first epoch made two Updates from two leaf secrets at
\* the same epoch; both are in flight, the member holds the second secret,
\* and its handle call on the first has just been rejected
C18_Witness ==
  \E k \in 1..NumUpdSecrets : \E k2 \in 1..NumUpdSecrets \ {k} :
    /\ last.op = "handle"
    /\ ~last.ok
    /\ st[last.m] # NoState
    /\ st[last.m].epoch > zero_epoch
    /\ st[last.m].cached_leaf_secret = UpdSecret(k2)
    /\ State_update(st[last.m], UpdSecret(k)).handshake \in hs
    /\ State_update(st[last.m], UpdSecret(k2)).handshake \in hs
    /\ \E r \in {State_handle(st[last.m], State_update(st[last.m], UpdSecret(k)).handshake)} :
         ~r.ok /\ r.err = last.err /\ r.self = st[last.m]

\* C19: join succeeds only for a Welcome and a handshake that come from the
\* same group state: the Welcome's epoch is the handshake's prior_epoch, the
\* path of the Add is the one encrypted over the Welcome's tree from the
\* Welcome's leaf secret, and the signature covers the joined state, whose
\* epoch is therefore prior_epoch + 1; a Welcome paired with a handshake
\* made at another epoch is rejected.  This holds for every identity, every
\* init secret, every Welcome in flight and every handshake in flight.
C19_JoinBindsWelcome ==
  \A m \in Members : \A k \in Members : \A w \in WelcomeInputs : \A h \in hs :
    \E r \in {JoinState(SigPriv(m), UserInitSecret(k), w, h)} :
      /\ r.ok =>
           /\ w.epoch = h.prior_epoch
           /\ r.st.epoch = h.prior_epoch + 1
           /\ h.operation.path = tree_encrypt(w.tree, tree_size(w.tree), w.leaf_secret)
           /\ Produced(h, r.st)
      /\ w.epoch # h.prior_epoch => ~r.ok

\* a member's join has just been rejected while a Welcome and an Add
\* handshake for that member made at different epochs are in flight, and
\* this pair gets past the identity and init key checks of join
C19_Witness ==
  \E w \in WelcomeInputs : \E h \in hs :
    /\ last.op = "join"
    /\ ~last.ok
    /\ h.operation.type = "add"
    /\ h.operation.init_key = UIKOf(last.m)
    /\ w.epoch # h.prior_epoch
    /\ \E g \in hs : g.operation.type = "add" /\ g.prior_epoch = w.epoch
                       /\ g.operation.init_key = UIKOf(last.m)
    /\ \E r \in {JoinState(SigPriv(last.m), UserInitSecret(last.m), w, h)} :
         ~r.ok /\ r.err = last.err

\* C20: the state create_group returns has applied the Add it returns: it
\* is at epoch 1 with a two-entry roster and equals the state the invited
\* member gets from join with the returned Welcome and handshake; its suite
\* is the first suite of supported_ciphersuites that the init key offers.
\* Stated for the state a caller holds right after create_group and for
\* every call of create_group.
C20_CreateGroupApplied ==
  /\ (last.op = "create_group" /\ last.ok) =>
        /\ st[last.m].epoch = zero_epoch + 1
        /\ Len(st[last.m].roster) = 2
  /\ \A m \in Members : \A j \in Members : \A sl \in SuiteLists : \A un \in Suites :
       \A d \in 1..NumDraws :
         \E r \in {create_group(GroupId, sl, SigPriv(m), UIKOf(j), un,
                                random_bytes("new_group", 0, zero_epoch, m, 1),
                                random_bytes("add", j, zero_epoch, m, d))} :
           r.ok =>
             /\ r.state.epoch = zero_epoch + 1
             /\ Len(r.state.roster) = 2
             /\ \E joined \in {JoinState(SigPriv(j), UserInitSecret(j),
                                          WireWelcome(r.welcome), r.handshake)} :
                  joined.ok /\ StateEq(r.state, joined.st)
             /\ Common(sl, UIKOf(j)) # {}
             /\ r.state.suite = sl[Min(Common(sl, UIKOf(j)))]

\* the three secrets of an epoch as state s holds them
EpochSecrets(s) == {root_secret(s.tree), s.init_secret, s.message_master_secret}

\* C21: a Remove of leaf r made by a member at another leaf can be applied
\* by that member and by every member in an equal state whose leaf is not
\* r, and takes them to the next epoch; the member at leaf r cannot apply
\* it: its handle fails and leaves it where it is, and its state never
\* shares the root secret, the init_secret or the message_master_secret
\* with a state that the Remove produced.
C21_RemoveExcludes ==
  /\ \A m \in Live : \A index \in 0..(tree_size(st[m].tree) - 1) : \A d \in 1..NumDraws :
       index # st[m].index =>
         \E rm \in {State_remove(st[m], index,
                                 random_bytes("remove", index, st[m].epoch, m, d))} :
           /\ rm.ok
           /\ \A b \in Live :
                StateEq(st[b], st[m]) =>
                  \E r \in {State_handle(st[b], rm.handshake)} :
                    IF st[b].index # index
                    THEN r.ok /\ r.next.epoch = st[m].epoch + 1
                         /\ root_secret(r.next.tree) # NoSecret
                    ELSE ~r.ok /\ r.self = st[b]
  /\ \A h \in hs :
       (h.operation.type = "remove" /\ h.signer_index # h.operation.removed) =>
         \A m \in Live :
           st[m].index = h.operation.removed =>
             /\ \E r \in {State_handle(st[m], h)} : ~r.ok /\ r.self = st[m]
             /\ \A a \in Live :
                  /\ Produced(h, st[a]) => EpochSecrets(st[a]) \cap EpochSecrets(st[m]) = {}
                  /\ \E r \in {State_handle(st[a], h)} :
                       r.ok => EpochSecrets(r.next) \cap EpochSecrets(st[m]) = {}

\* the member at the removed leaf has just had its handle call rejected
\* while a Remove of its leaf made at its epoch is in flight and another
\* member, who was in an equal state, has applied that Remove
C21_Witness ==
  \E h \in hs : \E a \in Live :
    /\ last.op = "handle"
    /\ ~last.ok
    /\ st[last.m] # NoState
    /\ h.operation.type = "remove"
    /\ h.signer_index # h.operation.removed
    /\ st[last.m].index = h.operation.removed
    /\ h.prior_epoch = st[last.m].epoch
    /\ Produced(h, st[a])
    /\ a # last.m
    /\ \E r \in {State_handle(st[last.m], h)} : ~r.ok /\ r.err = last.err /\ r.err = "Crypto"
====
